---- MODULE Spec2Model ----
(***************************************************************************)
(* Model of manim_code_blocks.py: Theme.color_for, the construction of a   *)
(* ProgrammingLanguage, and CodeBlock.__init__ / create / uncreate.        *)
(*                                                                         *)
(* Python strings are sequences of one-character strings.  The markup the  *)
(* code assembles is a sequence of pieces: the literal pieces the code     *)
(* writes itself ('<span foreground="', '">', '</span>', a colour) and the *)
(* characters that come from a token value or from the text.               *)
(***************************************************************************)
EXTENDS Integers, Sequences, FiniteSets, TLC

(* ------------------------------ bounds -------------------------------- *)

\* longest text of parentheses, identifiers and line breaks
MaxLen == 5
\* longest text over the mixed alphabet (both bracket kinds, markup characters)
MaxMixedLen == 3

(* --------------------------- Python values ---------------------------- *)

\* Python's None, and an object held where None is possible
None == <<>>
Some(x) == <<x>>
Truthy(v) == v # None

NL == "\n"
CR == "\r"

SeqsUpTo(S, n) == UNION {[1..k -> S] : k \in 0..n}

\* the remainder of a division that truncates toward zero: the sign of a
TruncMod(a, n) == IF a >= 0 THEN a % n ELSE -((-a) % n)

\* a % n as Python computes it for n > 0: the result has the sign of n
FloorMod(a, n) == a - n * (a \div n)

\* seq[i] as Python computes it: 0-based, a negative i counts from the end
PyIndex(seq, i) ==
    IF i >= 0 /\ i < Len(seq) THEN Some(seq[i + 1])
    ELSE IF i < 0 /\ i >= -Len(seq) THEN Some(seq[Len(seq) + i + 1])
    ELSE None

\* the first position of c in s, 0 when there is none
RECURSIVE Find(_, _, _)
Find(s, c, i) ==
    IF i > Len(s) THEN 0
    ELSE IF s[i] = c THEN i
    ELSE Find(s, c, i + 1)

\* text.split(sep)
RECURSIVE Split(_, _)
Split(s, sep) ==
    LET p == Find(s, sep, 1) IN
    IF p = 0 THEN <<s>>
    ELSE <<SubSeq(s, 1, p - 1)>> \o Split(SubSeq(s, p + 1, Len(s)), sep)

\* "".join(parts)
RECURSIVE Join(_)
Join(parts) ==
    IF parts = <<>> THEN <<>>
    ELSE Head(parts) \o Join(Tail(parts))

\* regex.sub(pat, repl, s) for a one-character literal pattern
RECURSIVE Sub(_, _, _)
Sub(pat, repl, s) ==
    IF s = <<>> THEN <<>>
    ELSE (IF Head(s) = pat THEN repl ELSE <<Head(s)>>) \o Sub(pat, repl, Tail(s))

Amp == <<"&", "a", "m", "p", ";">>
Lt == <<"&", "l", "t", ";">>
Gt == <<"&", "g", "t", ";">>

\* type.startswith(prefix), on the token types of the model
LeftTypes == {"left paren"}
RightTypes == {"right paren", "right bracket"}
StartsWithLeft(type) == type \in LeftTypes
StartsWithRight(type) == type \in RightTypes

(* ------------------------------ Theme --------------------------------- *)

GRAY_C == "#888888"
DefaultColor == "#FFFFFF"

\* a colours mapping is a sequence of (key, list of token types), in mapping order
OneDark == [
    colors |-> <<
        [key |-> "#C678DD", types |-> {"keyword", "directive"}],
        [key |-> "#61AFEF", types |-> {"function"}],
        [key |-> "#E06C75", types |-> {"identifier"}],
        [key |-> "#98C379", types |-> {"string"}],
        [key |-> "#56B6C2", types |-> {"symbol"}],
        [key |-> "#D19A66", types |-> {"number", "keyword literal"}],
        [key |-> "#E5C07B", types |-> {"class name"}],
        [key |-> GRAY_C, types |-> {"comment"}] >>,
    group_matchers |-> <<"#D19A66", "#C678DD", "#56B6C2">> ]

\* a theme a caller builds with Theme(colors, group_matchers): white identifiers,
\* "identifier" listed under two colours, two group colours
Paper == [
    colors |-> <<
        [key |-> "#FFFFFF", types |-> {"identifier"}],
        [key |-> "#ABB2BF", types |-> {"identifier", "symbol"}] >>,
    group_matchers |-> <<"#E5C07B", "#61AFEF">> ]

Themes == {OneDark, Paper}

\* Theme.color_for: the loop over colors.items()
RECURSIVE ColorScan(_, _, _)
ColorScan(colors, type, i) ==
    IF i > Len(colors) THEN DefaultColor
    ELSE IF type \in colors[i].types THEN colors[i].key
    ELSE ColorScan(colors, type, i + 1)

\* a scan that does not return at the first match: the last matching entry wins
RECURSIVE ColorScanLast(_, _, _, _)
ColorScanLast(colors, type, i, found) ==
    IF i > Len(colors) THEN found
    ELSE ColorScanLast(colors, type, i + 1,
                       IF type \in colors[i].types THEN colors[i].key ELSE found)

color_for_last(th, token) == ColorScanLast(th.colors, token.type, 1, DefaultColor)

color_for(th, token) == ColorScan(th.colors, token.type, 1)

(* ---------------------------- tokenizer ------------------------------- *)

ParenAlphabet == {"(", ")", "x", NL}
MixedAlphabet == {"(", "]", "&", "<", ">", " ", "x", NL}

\* the texts a CodeBlock is constructed with
Texts == SeqsUpTo(ParenAlphabet, MaxLen) \cup SeqsUpTo(MixedAlphabet, MaxMixedLen)

TypeOf(c) ==
    CASE c = "(" -> "left paren"
      [] c = ")" -> "right paren"
      [] c = "]" -> "right bracket"
      [] c = " " -> "whitespace"
      [] c = "x" -> "identifier"
      [] c = "<" -> "symbol"
      [] c = ">" -> "symbol"
      [] OTHER -> "operation"

\* runs of whitespace and of identifier characters are one token
Merges(c) == c \in {" ", "x"}

\* language.language.tokenize(line): a lossless split of the line into typed tokens
RECURSIVE Tokenize(_)
Tokenize(line) ==
    IF line = <<>> THEN <<>>
    ELSE LET c == Head(line)
             rest == Tokenize(Tail(line))
         IN IF rest # <<>> /\ Merges(c) /\ rest[1].type = TypeOf(c)
            THEN <<[type |-> TypeOf(c), value |-> <<c>> \o rest[1].value]>> \o Tail(rest)
            ELSE <<[type |-> TypeOf(c), value |-> <<c>>]>> \o rest

(* ----------------------- ProgrammingLanguage -------------------------- *)

\* the attributes of the tokenize_all module
TokenizeAll == {"C", "Cpp"}

\* language_colors, the table fetched at import: name -> entry
LanguageColors == [n \in {"C", "C++", "ABNF"} |->
    CASE n = "C" -> [color |-> Some("#555555")]
      [] n = "C++" -> [color |-> Some("#f34b7d")]
      [] OTHER -> [color |-> None]]

\* the names and tokenize_names a ProgrammingLanguage is constructed with
Names == {"C", "ABNF", "Klingon"}
TokenizeNames == {None, Some("C")}

VARIABLES
    pc,              \* where the program is
    pl,              \* the ProgrammingLanguage under construction / constructed
    raised,          \* the exception that ended ProgrammingLanguage.__init__, or None
    warnings,        \* the lines printed
    text, language, theme,   \* the arguments of CodeBlock.__init__
    lines, group_count, finished, finished_text,
    li,              \* index of the line the outer loop is at (1-based)
    tokens,          \* the tokens of that line
    ti,              \* index of the token the inner loop is at
    code, code_background, title, title_background, submobjects,
    animations       \* the tuple create() / uncreate() returned last

vars == <<pc, pl, raised, warnings, text, language, theme, lines, group_count,
          finished, finished_text, li, tokens, ti, code, code_background,
          title, title_background, submobjects, animations>>

plVars == <<pl, raised, warnings>>
argVars == <<text, language, theme>>
loopVars == <<lines, group_count, finished, li, tokens, ti>>
groupVars == <<code, code_background, title, title_background, submobjects>>

Init ==
    /\ pc = "module"
    /\ pl = None
    /\ raised = None
    /\ warnings = <<>>
    /\ text = <<>>
    /\ language = None
    /\ theme = OneDark
    /\ lines = <<>>
    /\ group_count = 0
    /\ finished = <<>>
    /\ finished_text = <<>>
    /\ li = 1
    /\ tokens = <<>>
    /\ ti = 1
    /\ code = None
    /\ code_background = None
    /\ title = None
    /\ title_background = None
    /\ submobjects = <<>>
    /\ animations = <<>>

\* ProgrammingLanguage.__init__(name, tokenize_name)
ProgrammingLanguageInit(name, tokenize_name) ==
    LET attr == IF Truthy(tokenize_name) THEN tokenize_name[1] ELSE name
        hasAttr == attr \in TokenizeAll
        hasEntry == name \in DOMAIN LanguageColors
        color == LanguageColors[name].color
    IN
    /\ pc' = "ready"
    /\ IF ~hasAttr
       THEN /\ raised' = Some("AttributeError")
            /\ pl' = None
            /\ warnings' = warnings
       ELSE IF ~hasEntry
       THEN /\ raised' = Some("KeyError")
            /\ pl' = None
            /\ warnings' = warnings
       ELSE /\ raised' = None
            /\ pl' = Some([name |-> name, language |-> attr, color |-> color])
            /\ warnings' = IF color = None
                           THEN Append(warnings, "Warning: no color found")
                           ELSE warnings
    /\ UNCHANGED <<argVars, loopVars, finished_text, groupVars, animations>>

\* a module-level ProgrammingLanguage(...) statement
NewProgrammingLanguage ==
    /\ pc = "module"
    /\ \E n \in Names, tn \in TokenizeNames : ProgrammingLanguageInit(n, tn)

(* --------------------------- CodeBlock -------------------------------- *)

Span(color, body) == <<"<span foreground=\"", color, "\">">> \o body \o <<"</span>">>

\* the languages a caller can pass: None, or the language constructed
Languages == {None} \cup (IF Truthy(pl) THEN {pl} ELSE {})

\* CodeBlock.__init__, "if language:" taken, up to the loop
StartStyled(t, lang, th) ==
    /\ Truthy(lang)
    /\ text' = t
    /\ language' = lang
    /\ theme' = th
    /\ lines' = Split(t, NL)
    /\ group_count' = 0
    /\ finished' = <<>>
    /\ li' = 1
    /\ pc' = "for_line"
    /\ UNCHANGED <<plVars, tokens, ti, finished_text, groupVars, animations>>

\* the unstyled text left without its span
StartUnstyledBare(t, lang, th) ==
    /\ ~Truthy(lang)
    /\ text' = t
    /\ language' = lang
    /\ theme' = th
    /\ finished_text' = t
    /\ pc' = "markup"
    /\ UNCHANGED <<plVars, loopVars, groupVars, animations>>

\* CodeBlock.__init__, the else branch
StartUnstyled(t, lang, th) ==
    /\ ~Truthy(lang)
    /\ text' = t
    /\ language' = lang
    /\ theme' = th
    /\ finished_text' = Span(DefaultColor, t)
    /\ pc' = "markup"
    /\ UNCHANGED <<plVars, loopVars, groupVars, animations>>

\* a caller constructs a CodeBlock with a language
BeginStyled ==
    /\ pc = "ready"
    /\ \E t \in Texts, lang \in Languages, th \in Themes : StartStyled(t, lang, th)

\* a caller constructs a CodeBlock without one
BeginUnstyled ==
    /\ pc = "ready"
    /\ \E t \in Texts, lang \in Languages, th \in Themes : StartUnstyled(t, lang, th)

\* for line in lines: tokens = language.language.tokenize(line)
NextLine ==
    /\ pc = "for_line"
    /\ li <= Len(lines)
    /\ tokens' = Tokenize(lines[li])
    /\ ti' = 1
    /\ pc' = "for_token"
    /\ UNCHANGED <<plVars, argVars, lines, group_count, finished, li,
                   finished_text, groupVars, animations>>

AtToken == pc = "for_token" /\ ti <= Len(tokens)

Advance ==
    /\ ti' = ti + 1
    /\ UNCHANGED <<pc, plVars, argVars, lines, li, tokens, finished_text,
                   groupVars, animations>>

GroupIndex(count, th) == FloorMod(count, Len(th.group_matchers))

GroupColor(count, th) == PyIndex(th.group_matchers, GroupIndex(count, th))[1]

\* an opening bracket counted before its colour is picked
RenderLeftCountFirst ==
    /\ AtToken
    /\ StartsWithLeft(tokens[ti].type)
    /\ group_count' = group_count + 1
    /\ finished' = Append(finished, Span(GroupColor(group_count + 1, theme), tokens[ti].value))
    /\ Advance

\* token.type.startswith('left')
RenderLeft ==
    /\ AtToken
    /\ StartsWithLeft(tokens[ti].type)
    /\ finished' = Append(finished, Span(GroupColor(group_count, theme), tokens[ti].value))
    /\ group_count' = group_count + 1
    /\ Advance

\* a closing bracket coloured before it is counted
RenderRightColourFirst ==
    /\ AtToken
    /\ ~StartsWithLeft(tokens[ti].type)
    /\ StartsWithRight(tokens[ti].type)
    /\ finished' = Append(finished, Span(GroupColor(group_count, theme), tokens[ti].value))
    /\ group_count' = group_count - 1
    /\ Advance

\* a closing bracket that is coloured but not counted
RenderRightNoCount ==
    /\ AtToken
    /\ ~StartsWithLeft(tokens[ti].type)
    /\ StartsWithRight(tokens[ti].type)
    /\ finished' = Append(finished, Span(GroupColor(group_count - 1, theme), tokens[ti].value))
    /\ UNCHANGED group_count
    /\ Advance

\* token.type.startswith('right')
RenderRight ==
    /\ AtToken
    /\ ~StartsWithLeft(tokens[ti].type)
    /\ StartsWithRight(tokens[ti].type)
    /\ group_count' = group_count - 1
    /\ finished' = Append(finished, Span(GroupColor(group_count - 1, theme), tokens[ti].value))
    /\ Advance

\* token.type == "whitespace"
RenderWhitespace ==
    /\ AtToken
    /\ ~StartsWithLeft(tokens[ti].type)
    /\ ~StartsWithRight(tokens[ti].type)
    /\ tokens[ti].type = "whitespace"
    /\ finished' = Append(finished, tokens[ti].value)
    /\ UNCHANGED group_count
    /\ Advance

safe_value(value) == Sub(">", Gt, Sub("<", Lt, Sub("&", Amp, value)))

\* the else branch
RenderOther ==
    /\ AtToken
    /\ ~StartsWithLeft(tokens[ti].type)
    /\ ~StartsWithRight(tokens[ti].type)
    /\ tokens[ti].type # "whitespace"
    /\ finished' = Append(finished, Span(color_for(theme, tokens[ti]), safe_value(tokens[ti].value)))
    /\ UNCHANGED group_count
    /\ Advance

\* a line end that starts the bracket depth afresh
EndLineReset ==
    /\ pc = "for_token"
    /\ ti > Len(tokens)
    /\ finished' = Append(finished, <<CR>>)
    /\ group_count' = 0
    /\ li' = li + 1
    /\ pc' = "for_line"
    /\ UNCHANGED <<plVars, argVars, lines, tokens, ti, finished_text, groupVars, animations>>

\* a separator written between lines only, none after the last
EndLineBetween ==
    /\ pc = "for_token"
    /\ ti > Len(tokens)
    /\ finished' = IF li < Len(lines) THEN Append(finished, <<CR>>) ELSE finished
    /\ li' = li + 1
    /\ pc' = "for_line"
    /\ UNCHANGED <<plVars, argVars, lines, group_count, tokens, ti,
                   finished_text, groupVars, animations>>

\* finished.append("\r") after the tokens of a line
EndLine ==
    /\ pc = "for_token"
    /\ ti > Len(tokens)
    /\ finished' = Append(finished, <<CR>>)
    /\ li' = li + 1
    /\ pc' = "for_line"
    /\ UNCHANGED <<plVars, argVars, lines, group_count, tokens, ti,
                   finished_text, groupVars, animations>>

\* finished_text = "".join(finished)
JoinFinished ==
    /\ pc = "for_line"
    /\ li > Len(lines)
    /\ finished_text' = Join(finished)
    /\ pc' = "markup"
    /\ UNCHANGED <<plVars, argVars, loopVars, groupVars, animations>>

Font == "consolas"

MarkupText(body) == [cls |-> "MarkupText",
                     text |-> <<"<span font=\"", Font, "\">">> \o body \o <<"</span>">>]

BackgroundRectangle(of) == [cls |-> "BackgroundRectangle", of |-> of]

\* the rest of CodeBlock.__init__: markup, backgrounds, title, the VGroup
BuildGroup ==
    LET markup == MarkupText(finished_text)
        background_rect == BackgroundRectangle(markup)
        lang_name == [cls |-> "MarkupText",
                      text |-> <<"<span font=\"", Font, "\">", language[1].name, "</span>">>,
                      color |-> language[1].color]
        lang_background == BackgroundRectangle(lang_name)
    IN
    /\ pc = "markup"
    /\ IF Truthy(language)
       THEN /\ title' = Some(lang_name)
            /\ title_background' = Some(lang_background)
            /\ submobjects' = <<background_rect, markup, lang_background, lang_name>>
       ELSE /\ title' = None
            /\ title_background' = None
            /\ submobjects' = <<background_rect, markup>>
    /\ code' = Some(markup)
    /\ code_background' = Some(background_rect)
    /\ pc' = "built"
    /\ UNCHANGED <<plVars, argVars, loopVars, finished_text, animations>>

Anim(kind, mobject) == [anim |-> kind, mobject |-> mobject]

\* CodeBlock.create
Create ==
    /\ pc = "built"
    /\ animations' =
         IF Truthy(title) /\ Truthy(title_background)
         THEN << Anim("FadeIn", code_background[1]),
                 Anim("AddTextLetterByLetter", code[1]),
                 Anim("FadeIn", title_background[1]),
                 Anim("AddTextLetterByLetter", title[1]) >>
         ELSE << Anim("FadeIn", code_background[1]),
                 Anim("AddTextLetterByLetter", code[1]) >>
    /\ UNCHANGED <<pc, plVars, argVars, loopVars, finished_text, groupVars>>

\* CodeBlock.uncreate
Uncreate ==
    /\ pc = "built"
    /\ animations' =
         IF Truthy(title) /\ Truthy(title_background)
         THEN << Anim("FadeOut", code_background[1]),
                 Anim("Uncreate", code[1]),
                 Anim("FadeOut", title_background[1]),
                 Anim("Uncreate", title[1]) >>
         ELSE << Anim("FadeOut", code_background[1]),
                 Anim("Uncreate", code[1]) >>
    /\ UNCHANGED <<pc, plVars, argVars, loopVars, finished_text, groupVars>>

Next ==
    \/ NewProgrammingLanguage
    \/ BeginStyled
    \/ BeginUnstyled
    \/ NextLine
    \/ RenderLeft
    \/ RenderRight
    \/ RenderWhitespace
    \/ RenderOther
    \/ EndLine
    \/ JoinFinished
    \/ BuildGroup
    \/ Create
    \/ Uncreate

Spec == Init /\ [][Next]_vars

(* ------------------- the token stream of a block ---------------------- *)

Separator == [type |-> "line separator", value |-> <<CR>>]

\* the tokens of lines 1..k, each line followed by its separator
RECURSIVE Items(_)
Items(k) ==
    IF k = 0 THEN <<>>
    ELSE Items(k - 1) \o Tokenize(lines[k]) \o <<Separator>>

Styled == pc \in {"for_line", "for_token"} \/ (pc \in {"markup", "built"} /\ Truthy(language))
Rendered == pc \in {"markup", "built"} /\ Truthy(language)

\* what the loops have processed so far, and what they process in all
Stream ==
    IF ~Styled THEN <<>>
    ELSE Items(li - 1) \o
         (IF pc = "for_token" THEN SubSeq(Tokenize(lines[li]), 1, ti - 1) ELSE <<>>)
FullStream == Items(Len(lines))

IsLeft(item) == item.type \in {"left paren"}
IsRight(item) == item.type \in {"right paren", "right bracket"}
IsOther(item) == ~IsLeft(item) /\ ~IsRight(item) /\ item.type \notin {"whitespace", "line separator"}

Opens(str, n) == Cardinality({q \in 1..n : IsLeft(str[q])})
Closes(str, n) == Cardinality({q \in 1..n : IsRight(str[q])})
\* the bracket depth after the first n items
Depth(str, n) == Opens(str, n) - Closes(str, n)

\* every closing bracket is preceded by an unmatched opening bracket
WellFormed(str) == \A n \in 0..Len(str) : Depth(str, n) >= 0

SetMax(S) == CHOOSE x \in S : \A y \in S : y <= x
SetMin(S) == CHOOSE x \in S : \A y \in S : x <= y

\* the opening bracket the closing bracket at p closes
Opener(str, p) ==
    SetMax({q \in 1..(p - 1) : IsLeft(str[q]) /\ Depth(str, q - 1) = Depth(str, p)})

IsSpan(frag) == Len(frag) >= 4 /\ frag[1] = "<span foreground=\"" /\ frag[3] = "\">"
                  /\ frag[Len(frag)] = "</span>"
Foreground(frag) == frag[2]
Body(frag) == IF IsSpan(frag) THEN SubSeq(frag, 4, Len(frag) - 1) ELSE frag

IsPrefix(a, b) == Len(a) <= Len(b) /\ SubSeq(b, 1, Len(a)) = a

\* the text an escaped body stands for
RECURSIVE Unescape(_)
Unescape(s) ==
    IF s = <<>> THEN <<>>
    ELSE IF IsPrefix(Amp, s) THEN <<"&">> \o Unescape(SubSeq(s, 6, Len(s)))
    ELSE IF IsPrefix(Lt, s) THEN <<"<">> \o Unescape(SubSeq(s, 5, Len(s)))
    ELSE IF IsPrefix(Gt, s) THEN <<">">> \o Unescape(SubSeq(s, 5, Len(s)))
    ELSE <<Head(s)>> \o Unescape(Tail(s))

\* no character of s is a raw '<' or '>', and every '&' starts an entity
NoRawMarkup(s) ==
    \A q \in 1..Len(s) :
        /\ s[q] \notin {"<", ">"}
        /\ s[q] = "&" => \E e \in {Amp, Lt, Gt} : IsPrefix(e, SubSeq(s, q, Len(s)))

GroupColours == theme.group_matchers
N == Len(GroupColours)

(* ------------------------------ claims -------------------------------- *)

\* C1: the bracket depth starts at 0, is carried over line ends, and after any
\* prefix of the block's token stream equals the opening-bracket tokens processed
\* minus the closing-bracket tokens processed, whatever other tokens came between.
GroupCountIsOpensMinusCloses ==
    Styled => group_count = Opens(Stream, Len(Stream)) - Closes(Stream, Len(Stream))

\* a second line is being rendered with two brackets still open from the first
CarriedDepthReached ==
    /\ pc = "for_token" /\ li = 2 /\ ti = 2
    /\ group_count = 3
    /\ Opens(Items(1), Len(Items(1))) = 2

\* C2: every opening bracket is rendered in group_matchers[d % N], d the depth
\* before it; "((x))" from depth 0 uses entries 0 % N and 1 % N and ends at 0.
OpenersUseDepthColour ==
    /\ Styled =>
         \A p \in 1..Len(Stream) :
            IsLeft(Stream[p]) =>
               /\ p <= Len(finished)
               /\ finished[p] =
                    Span(GroupColours[(Depth(Stream, p - 1) % N) + 1], Stream[p].value)
    /\ Rendered /\ text = <<"(", "(", "x", ")", ")">> =>
         /\ group_count = 0
         /\ Foreground(finished[1]) = GroupColours[(0 % N) + 1]
         /\ Foreground(finished[2]) = GroupColours[(1 % N) + 1]

\* "((x))" has been rendered under the theme with three group colours
NestedParensRendered ==
    /\ Rendered /\ text = <<"(", "(", "x", ")", ")">> /\ theme = OneDark
    /\ Foreground(finished[1]) # Foreground(finished[2])

\* C3: in a token stream whose every prefix has at least as many opening as
\* closing brackets, each closing bracket is rendered in the colour of the
\* opening bracket it closes, at any depth, across lines, whatever the kinds.
ClosersMatchOpeners ==
    Styled /\ WellFormed(FullStream) =>
        \A p \in 1..Len(Stream) :
            IsRight(Stream[p]) =>
               /\ p <= Len(finished)
               /\ IsSpan(finished[p])
               /\ Foreground(finished[p]) = Foreground(finished[Opener(Stream, p)])

\* a "]" on a later line has closed a "(" of an earlier line
CrossLineCloserRendered ==
    /\ Rendered /\ WellFormed(FullStream)
    /\ \E p \in 1..Len(Stream) :
          /\ Stream[p].type = "right bracket"
          /\ \E q \in Opener(Stream, p)..p : Stream[q].type = "line separator"

\* C4 (as claimed): no raw '&', '<' or '>' that comes from the source text is in
\* the finished markup: every token value is embedded with the three replaced by
\* their entities.
NoRawMarkupInFinishedText ==
    pc \in {"markup", "built"} => NoRawMarkup(finished_text)

\* C5 (as claimed): constructing a ProgrammingLanguage never raises: an unknown
\* name or a missing colour is reported and construction completes.
ConstructionNeverRaises ==
    pc # "module" => raised = None /\ Truthy(pl)

FirstMatch(colors, type) ==
    LET M == {i \in 1..Len(colors) : type \in colors[i].types}
    IN IF M = {} THEN DefaultColor ELSE colors[SetMin(M)].key

NoMatch(colors, type) == \A i \in 1..Len(colors) : type \notin colors[i].types

\* the positions of the tokens rendered through color_for
OtherPositions == {p \in 1..Len(Stream) : IsOther(Stream[p])}

\* C6 (amended): color_for returns the key of the first entry, in mapping order,
\* whose list contains the token type, and "#FFFFFF" whenever no list contains it.
ColorForIsFirstMatch ==
    Styled =>
        \A p \in OtherPositions :
            /\ p <= Len(finished)
            /\ IsSpan(finished[p])
            /\ Foreground(finished[p]) = FirstMatch(theme.colors, Stream[p].type)
            /\ NoMatch(theme.colors, Stream[p].type) => Foreground(finished[p]) = DefaultColor

\* C6 (as claimed): ... and "#FFFFFF" exactly when no list contains the type.
ColorForDefaultExactlyWhenNoMatch ==
    Styled =>
        \A p \in OtherPositions :
            /\ p <= Len(finished)
            /\ Foreground(finished[p]) = FirstMatch(theme.colors, Stream[p].type)
            /\ Foreground(finished[p]) = DefaultColor <=> NoMatch(theme.colors, Stream[p].type)

\* a token whose type two entries list and a token no entry lists were coloured
FirstMatchAndDefaultReached ==
    /\ Rendered
    /\ \E p \in OtherPositions :
          Cardinality({i \in 1..Len(theme.colors) : Stream[p].type \in theme.colors[i].types}) = 2
    /\ \E p \in OtherPositions : NoMatch(theme.colors, Stream[p].type)

CountOf(s, c) == Cardinality({q \in 1..Len(s) : s[q] = c})

\* the values of the tokens of a line, put together again
RECURSIVE Values(_)
Values(toks) == IF toks = <<>> THEN <<>> ELSE Head(toks).value \o Values(Tail(toks))

\* C7: with a language, the markup is, line by line, one fragment per token in
\* the tokenizer's order and then one "\r"; nothing is dropped, doubled or moved,
\* and there are as many separators as lines (the "\n" of the text plus one).
OneFragmentPerTokenThenSeparator ==
    Styled =>
        /\ Len(lines) = CountOf(text, NL) + 1
        /\ Len(finished) = Len(Stream)
        /\ \A p \in 1..Len(finished) :
              IF Stream[p] = Separator THEN finished[p] = <<CR>>
              ELSE /\ finished[p] # <<CR>>
                   /\ Unescape(Body(finished[p])) = Stream[p].value
                   /\ Stream[p].type # "whitespace" => IsSpan(finished[p])
        /\ Rendered =>
              /\ Stream = FullStream
              /\ finished_text = Join(finished)
              /\ Cardinality({p \in 1..Len(finished) : finished[p] = <<CR>>}) = CountOf(text, NL) + 1

\* a text of three lines, an empty one among them, has been rendered
ThreeLinesRendered ==
    /\ Rendered /\ CountOf(text, NL) = 2 /\ Len(finished) >= 5
    /\ \E k \in 1..Len(lines) : lines[k] = <<>>

\* C8: when every closing bracket is preceded by an unmatched opening bracket the
\* depth is never negative, and it is 0 after the last token when the opening and
\* closing brackets are equal in number.
DepthNeverNegativeWhenWellFormed ==
    Styled /\ WellFormed(FullStream) =>
        /\ group_count >= 0
        /\ Rendered /\ Opens(FullStream, Len(FullStream)) = Closes(FullStream, Len(FullStream))
              => group_count = 0

\* two nested pairs have been rendered and the depth is back at 0
BalancedBlockRendered ==
    /\ Rendered /\ WellFormed(FullStream)
    /\ Opens(FullStream, Len(FullStream)) = 2 /\ Closes(FullStream, Len(FullStream)) = 2
    /\ group_count = 0

\* C9: without a language the block is plain: no line is split off and no token
\* rendered, the markup is the whole text in one "#FFFFFF" span, there is no title
\* and no title background, the group is the code background and the code, and
\* create() and uncreate() return two animations, four when there is a title.
UnstyledBlockIsPlain ==
    /\ pc \in {"markup", "built"} /\ ~Truthy(language) =>
          /\ finished_text = <<"<span foreground=\"", "#FFFFFF", "\">">> \o text \o <<"</span>">>
          /\ lines = <<>> /\ tokens = <<>> /\ finished = <<>> /\ group_count = 0
    /\ pc = "built" /\ ~Truthy(language) =>
          /\ title = None /\ title_background = None
          /\ submobjects = <<code_background[1], code[1]>>
          /\ code[1].text = <<"<span font=\"", Font, "\">">> \o finished_text \o <<"</span>">>
          /\ animations # <<>> =>
                /\ Len(animations) = 2
                /\ animations[1].mobject = code_background[1]
                /\ animations[2].mobject = code[1]
    /\ pc = "built" /\ Truthy(language) /\ animations # <<>> =>
          /\ Len(animations) = 4
          /\ Len(submobjects) = 4

\* an unstyled block with text has been built and animated
UnstyledBlockAnimated ==
    /\ pc = "built" /\ ~Truthy(language) /\ Len(text) = 2
    /\ animations # <<>> /\ animations[1].anim = "FadeOut"

\* C10: whatever the token stream, the index that picks the group colour of the
\* bracket about to be rendered lies in 0..N-1, also at a negative depth.
GroupIndexInRange ==
    AtToken =>
        /\ StartsWithLeft(tokens[ti].type) =>
              /\ GroupIndex(group_count, theme) \in 0..(N - 1)
              /\ GroupColor(group_count, theme) = GroupColours[GroupIndex(group_count, theme) + 1]
        /\ StartsWithRight(tokens[ti].type) =>
              /\ GroupIndex(group_count - 1, theme) \in 0..(N - 1)
              /\ GroupColor(group_count - 1, theme) = GroupColours[GroupIndex(group_count - 1, theme) + 1]

\* a closing bracket is about to be rendered at depth -2
NegativeDepthCloserReached ==
    AtToken /\ StartsWithRight(tokens[ti].type) /\ group_count = -2

====
